---- MODULE Spec2Model ----
(***************************************************************************)
(* Model of the distributor/handler layer of disruptor-- (handler.hpp):    *)
(* ParallelDistributor with its AsyncHandlerWrapper worker threads on top  *)
(* of a single-producer Sequencer, and the Single / Sequential / Composite *)
(* distributors.  sequencer.h is not part of the sources at hand; the      *)
(* Sequencer, its claim strategy, its barrier and the sentinel constants   *)
(* are modelled from the design document.                                  *)
(***************************************************************************)
EXTENDS Integers, Sequences, FiniteSets, TLC

(***************************************************************************)
(* Bounds of the model and program constants.                              *)
(***************************************************************************)
\* number of distribute calls the application thread makes
MaxDist == 3
\* number of AsyncHandlerWrapper objects ever created (over all starts)
MaxReceivers == 2
\* number of start calls that take effect
MaxStarts == 2

\* ring size (template parameter N, a power of two)
N == 2
kInitialCursorValue == -1
kDefaultStopSignal == -4
kStopImmediatelySignal == -5

\* the leaf handlers registered with the ParallelDistributor
Handlers == {"h1"}
NULL == "null"
\* literal stop targets passed to signal() besides the two sentinels
StopTargets == {1}
StopSignals == {kDefaultStopSignal, kStopImmediatelySignal} \cup StopTargets

VARIABLES
    chain,             \* ParallelDistributor::chain
    started_,          \* ParallelDistributor::started_
    last_claimed_idx,  \* ParallelDistributor::last_claimed_idx
    receivers,         \* ParallelDistributor::receivers, with each wrapper's thread
    cursor,            \* Sequencer: cursor Sequence
    next_claim,        \* single-producer claim strategy: next index counter
    cached_min_gating, \* single-producer claim strategy: cached minimum
    gating_sequences,  \* Sequencer: gating sequences (receiver numbers)
    buffer,            \* Sequencer: slot array, slot -> payload
    app,               \* the application thread: its position and locals
    sent,              \* history: one record per distribute call
    processed,         \* history: per receiver, the <<index, payload>> passed to process
    cycleStart,        \* history: per receiver, Len(processed) when its thread was launched
    pausedVal,         \* history: first payload of this cycle distributed while paused (0: none)
    epoch,             \* history: number of start calls that took effect
    handler_,          \* SingleDistributor::handler_
    seq_chain,         \* SequentialDistributor::chain of a plain SequentialDistributor
    comp_chain,        \* CompositeDistributor: the chain it inherits
    derived,           \* CompositeDistributor::derived
    branches,          \* per connector made by addAsyncHandlerParellel: the chain of its ParallelDistributor
    comp_call,         \* the application thread inside CompositeDistributor::removeHandler
    seq_call,          \* the application thread inside SequentialDistributor::distribute
    reg,               \* history: the handlers registered with the SequentialDistributor
    producer,          \* demo: the Sequencer `producer` the writer thread claims from
    consumers,         \* demo: the reader threads, each with its Sequence and its Barrier
    root,              \* a CompositeDistributor at the root of a handler/distributor tree
    life,              \* per ParallelDistributor of the tree: started_, and the calls that reached it
    inflight           \* payloads published in a ring of the tree and not yet passed on by a worker

vars == <<chain, started_, last_claimed_idx, receivers, cursor, next_claim,
          cached_min_gating, gating_sequences, buffer, app, sent,
          processed, cycleStart, pausedVal, epoch,
          handler_, seq_chain, comp_chain, derived, branches, comp_call,
          seq_call, reg, producer, consumers, root, life, inflight>>

lifeVars == <<root, life, inflight>>

pipeVars == <<producer, consumers>>

treeVars == <<handler_, seq_chain, comp_chain, derived, branches, comp_call,
              seq_call, reg>>

hist == <<sent, processed, cycleStart, pausedVal, epoch>>

pdVars == <<chain, started_, last_claimed_idx, receivers, cursor, next_claim,
            cached_min_gating, gating_sequences, buffer>>

(***************************************************************************)
(* Helpers on sequences.                                                   *)
(***************************************************************************)
Range(s) == {s[i] : i \in DOMAIN s}

Contains(s, x) == \E i \in DOMAIN s : s[i] = x

\* position of the first occurrence of x in s (std::find / the erase loops)
IndexOf(s, x) == CHOOSE i \in DOMAIN s : s[i] = x /\ \A j \in 1..(i - 1) : s[j] # x

\* vector::erase(it)
Erase(s, i) == [j \in 1..(Len(s) - 1) |-> IF j < i THEN s[j] ELSE s[j + 1]]

SetMin(S) == CHOOSE x \in S : \A y \in S : x <= y

\* slot of an index: i & (N-1)
Slot(i) == i % N

(***************************************************************************)
(* Sequencer (from the design document).                                   *)
(***************************************************************************)
\* minimum of the gating sequences; without gating sequences nothing gates
HasGating == gating_sequences # <<>>

MinGating == SetMin({receivers[gating_sequences[k]].sequence : k \in DOMAIN gating_sequences})

\* Claim(1), step 2: enough room for target, by the cached minimum or by a re-read
ClaimHasRoom(target) ==
    IF ~HasGating \/ target - cached_min_gating <= N - 1
    THEN TRUE
    ELSE target - MinGating <= N - 1

\* Claim(1), step 2: the cached minimum after the capacity check
ClaimCache(target) ==
    IF HasGating /\ target - cached_min_gating > N - 1 THEN MinGating ELSE cached_min_gating

\* Barrier.WaitFor(n, timeout) with no dependents: the observed cursor, which is
\* at least n unless the timeout expired
WaitFor(n) == cursor

(***************************************************************************)
(* AsyncHandlerWrapper                                                     *)
(***************************************************************************)
\* the wrapper as the constructor leaves it, no thread yet
NewWrapper(h) ==
    [handler |-> h, pauseFlag |-> TRUE, stopSequence |-> kDefaultStopSignal,
     work_thread |-> FALSE, sequence |-> kInitialCursorValue,
     pc |-> "none", idx |-> kInitialCursorValue, stopIdx |-> kDefaultStopSignal,
     cur |-> kInitialCursorValue]

\* attach: reset the flags and launch the thread (the wrapper never has a live
\* thread here: start runs only when not started and join reaps every thread)
Attach(w) ==
    [w EXCEPT !.pauseFlag = FALSE, !.stopSequence = kDefaultStopSignal,
              !.work_thread = TRUE, !.pc = "init"]

\* AsyncHandlerWrapper::signal
WrapperSignal(w, s) == IF w.work_thread THEN [w EXCEPT !.stopSequence = s] ELSE w

\* AsyncHandlerWrapper::signal_pause / signal_resume
WrapperPause(w, b) == IF w.work_thread THEN [w EXCEPT !.pauseFlag = b] ELSE w

\* the reader threads of the pipeline
Readers == {"A", "B"}

\* a reader's Sequence as main creates it, no thread yet
ReaderNew ==
    [sequence |-> kInitialCursorValue, idx |-> kInitialCursorValue, pc |-> "none",
     cursor |-> kInitialCursorValue, timedOut |-> FALSE, dep |-> {}, ahead |-> 0]

Init ==
    /\ chain = <<>>
    /\ started_ = FALSE
    /\ last_claimed_idx = kInitialCursorValue
    /\ receivers = <<>>
    /\ cursor = kInitialCursorValue
    /\ next_claim = kInitialCursorValue
    /\ cached_min_gating = kInitialCursorValue
    /\ gating_sequences = <<>>
    /\ buffer = [s \in 0..(N - 1) |-> 0]
    /\ app = [pc |-> "idle", payload |-> 0]
    /\ sent = <<>>
    /\ processed = <<>>
    /\ cycleStart = <<>>
    /\ pausedVal = 0
    /\ epoch = 0
    /\ handler_ = NULL
    /\ seq_chain = <<>>
    /\ comp_chain = <<>>
    /\ derived = <<>>
    /\ branches = <<>>
    /\ comp_call = [pc |-> "idle", depth |-> 0, arg |-> NULL]
    /\ seq_call = [pc |-> "idle", pos |-> 0, pMD |-> 0, log |-> <<>>]
    /\ reg = [set |-> {}, before |-> {}, again |-> FALSE]
    /\ producer = [next |-> kInitialCursorValue, cursor |-> kInitialCursorValue]
    /\ consumers = [c \in Readers |-> ReaderNew]
    /\ root = [kind |-> "composite", name |-> "root", kids |-> <<>>]
    /\ life = [started |-> {}, startCalled |-> FALSE, signalled |-> {},
               signalCalled |-> FALSE, joined |-> {}, joinCalled |-> FALSE,
               sent |-> FALSE, delivered |-> {}, dropped |-> {}]
    /\ inflight = {}

(***************************************************************************)
(* ParallelDistributor: the calls of the application thread.  The class is *)
(* not synchronised (started_, chain and last_claimed_idx are plain        *)
(* members), so one application thread makes all the calls, one at a time. *)
(***************************************************************************)
Idle == app.pc = "idle"


\* addHandler without the started_ test of line 275
ParallelAddChainAnyTime(h) ==
    IF h = NULL THEN chain
    ELSE IF Contains(chain, h) THEN chain ELSE Append(chain, h)

\* addHandler: the chain it leaves
ParallelAddChain(h) ==
    IF started_ \/ h = NULL THEN chain
    ELSE IF Contains(chain, h) THEN chain ELSE Append(chain, h)

\* addHandler: the value it returns
ParallelAddResult(h) == IF started_ \/ h = NULL THEN NULL ELSE h

AddHandler(h) ==
    /\ Idle
    /\ chain' = ParallelAddChain(h)
    /\ UNCHANGED <<started_, last_claimed_idx, receivers, cursor, next_claim,
                   cached_min_gating, gating_sequences, buffer, app, hist>>
    /\ UNCHANGED <<treeVars, pipeVars, lifeVars>>

\* removeHandler: the chain it leaves
ParallelRemoveChain(h) ==
    IF started_ THEN chain
    ELSE IF Contains(chain, h) THEN Erase(chain, IndexOf(chain, h)) ELSE chain

\* removeHandler: the value it returns
ParallelRemoveResult(h) ==
    IF started_ THEN NULL ELSE IF Contains(chain, h) THEN h ELSE NULL

RemoveHandler(h) ==
    /\ Idle
    /\ chain' = ParallelRemoveChain(h)
    /\ UNCHANGED <<started_, last_claimed_idx, receivers, cursor, next_claim,
                   cached_min_gating, gating_sequences, buffer, app, hist>>
    /\ UNCHANGED <<treeVars, pipeVars, lifeVars>>

\* start: one new wrapper per handler of the chain, appended to receivers
StartReceivers == receivers \o [k \in 1..Len(chain) |-> NewWrapper(chain[k])]

\* start: the Sequences of the wrappers created by this call (seq)
StartGating == [k \in 1..Len(chain) |-> Len(receivers) + k]

\* start: attach is called on every element of receivers
StartAttached == [k \in 1..Len(StartReceivers) |-> Attach(StartReceivers[k])]

Start ==
    /\ Idle
    /\ IF started_
       THEN UNCHANGED <<receivers, gating_sequences, started_, processed, cycleStart,
                        pausedVal, epoch>>
       ELSE /\ Len(receivers) + Len(chain) <= MaxReceivers
            /\ epoch < MaxStarts
            /\ receivers' = StartAttached
            /\ gating_sequences' = StartGating
            /\ started_' = TRUE
            /\ processed' = processed \o [k \in 1..Len(chain) |-> <<>>]
            /\ cycleStart' = [k \in 1..Len(StartReceivers) |-> Len(processed'[k])]
            /\ pausedVal' = 0
            /\ epoch' = epoch + 1
    /\ UNCHANGED <<chain, last_claimed_idx, cursor, next_claim, cached_min_gating,
                   buffer, app, sent>>
    /\ UNCHANGED <<treeVars, pipeVars, lifeVars>>

\* signal: the stop target handed to every wrapper
SignalTarget(stop_signal) ==
    IF stop_signal = kDefaultStopSignal THEN last_claimed_idx ELSE stop_signal

Signal(stop_signal) ==
    /\ Idle
    /\ receivers' = IF started_
                    THEN [k \in DOMAIN receivers |->
                             WrapperSignal(receivers[k], SignalTarget(stop_signal))]
                    ELSE receivers
    /\ UNCHANGED <<chain, started_, last_claimed_idx, cursor, next_claim,
                   cached_min_gating, gating_sequences, buffer, app, hist>>
    /\ UNCHANGED <<treeVars, pipeVars, lifeVars>>

\* signal_pause_all (b = TRUE) and signal_resume_all (b = FALSE)
PauseAll(b) ==
    /\ Idle
    /\ receivers' = IF started_
                    THEN [k \in DOMAIN receivers |-> WrapperPause(receivers[k], b)]
                    ELSE receivers
    /\ UNCHANGED <<chain, started_, last_claimed_idx, cursor, next_claim,
                   cached_min_gating, gating_sequences, buffer, app, hist>>
    /\ UNCHANGED <<treeVars, pipeVars, lifeVars>>

\* every live worker has its pause flag set (signal_pause_all was the last of
\* signal_pause_all / signal_resume_all since start)
PausedNow ==
    /\ \E k \in DOMAIN receivers : receivers[k].work_thread
    /\ \A k \in DOMAIN receivers : receivers[k].work_thread => receivers[k].pauseFlag

\* distribute without the started_ test of line 326
DistributeCallUnchecked ==
    /\ Idle
    /\ Len(sent) < MaxDist
    /\ app' = [pc |-> "claim", payload |-> Len(sent) + 1]
    /\ UNCHANGED <<pdVars, hist>>
    /\ UNCHANGED <<treeVars, pipeVars, lifeVars>>

\* distribute, line 326: dropped when not started, else on to Claim
DistributeCall ==
    /\ Idle
    /\ Len(sent) < MaxDist
    /\ LET p == Len(sent) + 1 IN
       IF started_
       THEN /\ app' = [pc |-> "claim", payload |-> p]
            /\ UNCHANGED sent
       ELSE /\ sent' = Append(sent, [val |-> p, epoch |-> epoch, idx |-> -1,
                                     started |-> FALSE])
            /\ UNCHANGED app
    /\ UNCHANGED <<pdVars, processed, cycleStart, pausedVal, epoch>>
    /\ UNCHANGED <<treeVars, pipeVars, lifeVars>>

\* a Claim that hands out the index it handed out before
DistributeClaimAgain ==
    /\ app.pc = "claim"
    /\ ClaimHasRoom(next_claim)
    /\ cached_min_gating' = ClaimCache(next_claim)
    /\ next_claim' = next_claim
    /\ last_claimed_idx' = next_claim
    /\ app' = [app EXCEPT !.pc = "copy"]
    /\ UNCHANGED <<chain, started_, receivers, cursor, gating_sequences, buffer, hist>>
    /\ UNCHANGED <<treeVars, pipeVars, lifeVars>>

\* distribute, line 327: Claim blocks until the ring has room
DistributeClaim ==
    /\ app.pc = "claim"
    /\ ClaimHasRoom(next_claim + 1)
    /\ cached_min_gating' = ClaimCache(next_claim + 1)
    /\ next_claim' = next_claim + 1
    /\ last_claimed_idx' = next_claim + 1
    /\ app' = [app EXCEPT !.pc = "copy"]
    /\ UNCHANGED <<chain, started_, receivers, cursor, gating_sequences, buffer, hist>>
    /\ UNCHANGED <<treeVars, pipeVars, lifeVars>>

\* distribute, line 328: memcpy into the slot
DistributeCopy ==
    /\ app.pc = "copy"
    /\ buffer' = [buffer EXCEPT ![Slot(last_claimed_idx)] = app.payload]
    /\ app' = [app EXCEPT !.pc = "publish"]
    /\ UNCHANGED <<chain, started_, last_claimed_idx, receivers, cursor, next_claim,
                   cached_min_gating, gating_sequences, hist>>
    /\ UNCHANGED <<treeVars, pipeVars, lifeVars>>

\* distribute, line 329: Publish releases the cursor
DistributePublish ==
    /\ app.pc = "publish"
    /\ cursor' = last_claimed_idx
    /\ sent' = Append(sent, [val |-> app.payload, epoch |-> epoch,
                             idx |-> last_claimed_idx, started |-> TRUE])
    /\ pausedVal' = IF PausedNow /\ pausedVal = 0 THEN app.payload ELSE pausedVal
    /\ app' = [pc |-> "idle", payload |-> 0]
    /\ UNCHANGED <<chain, started_, last_claimed_idx, receivers, next_claim,
                   cached_min_gating, gating_sequences, buffer, processed, cycleStart,
                   epoch>>
    /\ UNCHANGED <<treeVars, pipeVars, lifeVars>>

\* join, line 290: nothing to do when not started, else wait for the threads
JoinCall ==
    /\ Idle
    /\ IF started_
       THEN app' = [app EXCEPT !.pc = "join"]
       ELSE UNCHANGED app
    /\ UNCHANGED <<pdVars, hist>>
    /\ UNCHANGED <<treeVars, pipeVars, lifeVars>>

\* AsyncHandlerWrapper::join once the thread has ended
\* (the locals of the ended thread are gone: they are put back to their initial values)
WrapperJoin(w) ==
    IF w.work_thread
    THEN [w EXCEPT !.work_thread = FALSE, !.pc = "none", !.idx = kInitialCursorValue,
                   !.stopIdx = kDefaultStopSignal, !.cur = kInitialCursorValue]
    ELSE w

\* every thread::join of the loop has returned
AllExited == \A k \in DOMAIN receivers : receivers[k].work_thread => receivers[k].pc = "done"

\* join, lines 291-294: each thread::join returns once its thread has ended
JoinReturn ==
    /\ app.pc = "join"
    /\ AllExited
    /\ receivers' = [k \in DOMAIN receivers |-> WrapperJoin(receivers[k])]
    /\ started_' = FALSE
    /\ app' = [app EXCEPT !.pc = "idle"]
    /\ UNCHANGED <<chain, last_claimed_idx, cursor, next_claim, cached_min_gating,
                   gating_sequences, buffer, hist>>
    /\ UNCHANGED <<treeVars, pipeVars, lifeVars>>

(***************************************************************************)
(* AsyncHandlerWrapper::doWork, the worker thread of receiver i.           *)
(***************************************************************************)
WorkerUnchanged == <<chain, started_, last_claimed_idx, cursor, next_claim,
                     cached_min_gating, gating_sequences, buffer, app, sent,
                     cycleStart, pausedVal, epoch, treeVars, pipeVars, lifeVars>>

\* lines 228-232
WorkerInit(i) ==
    /\ receivers[i].pc = "init"
    /\ receivers' = [receivers EXCEPT ![i].sequence = kInitialCursorValue,
                                      ![i].idx = kInitialCursorValue,
                                      ![i].stopIdx = kDefaultStopSignal,
                                      ![i].pc = "poll"]
    /\ UNCHANGED <<WorkerUnchanged, processed>>

\* where the loop goes after the polling block, line 240
AfterPoll(stopIdx) == IF stopIdx = kStopImmediatelySignal THEN "done" ELSE "wait"

\* lines 237-238 (and 240 when the inner loop is left by the break)
WorkerPoll(i) ==
    /\ receivers[i].pc = "poll"
    /\ LET s == receivers[i].stopSequence IN
       receivers' = [receivers EXCEPT ![i].stopIdx = s,
                                      ![i].pc = IF s # kDefaultStopSignal
                                                THEN AfterPoll(s) ELSE "pause"]
    /\ UNCHANGED <<WorkerUnchanged, processed>>

\* a polling block that does not look at the pause flag
WorkerPauseIgnored(i) ==
    /\ receivers[i].pc = "pause"
    /\ receivers' = [receivers EXCEPT ![i].pc = AfterPoll(receivers[i].stopIdx)]
    /\ UNCHANGED <<WorkerUnchanged, processed>>

\* line 239 (and 240 when the pause flag is clear)
WorkerPause(i) ==
    /\ receivers[i].pc = "pause"
    /\ receivers' = [receivers EXCEPT ![i].pc = IF receivers[i].pauseFlag
                                                THEN "poll"
                                                ELSE AfterPoll(receivers[i].stopIdx)]
    /\ UNCHANGED <<WorkerUnchanged, processed>>

\* the target of the barrier wait, line 242
WaitTarget(idx) == idx

\* a wait that stores what it returns in the consumer Sequence right away
WorkerWaitAdvancing(i) ==
    /\ receivers[i].pc = "wait"
    /\ receivers' = [receivers EXCEPT ![i].cur = WaitFor(WaitTarget(receivers[i].idx)),
                                      ![i].sequence = WaitFor(WaitTarget(receivers[i].idx)),
                                      ![i].pc = "proc"]
    /\ UNCHANGED <<WorkerUnchanged, processed>>

\* line 242: the timeout is always set (100us), the wait returns the cursor
WorkerWait(i) ==
    /\ receivers[i].pc = "wait"
    /\ receivers' = [receivers EXCEPT ![i].cur = WaitFor(WaitTarget(receivers[i].idx)),
                                      ![i].pc = "proc"]
    /\ UNCHANGED <<WorkerUnchanged, processed>>

\* lines 243-247, one message
WorkerProcess(i) ==
    /\ receivers[i].pc = "proc"
    /\ receivers[i].idx < receivers[i].cur
    /\ LET idx == receivers[i].idx + 1 IN
       /\ processed' = [processed EXCEPT ![i] = Append(@, <<idx, buffer[Slot(idx)]>>)]
       /\ receivers' = [receivers EXCEPT ![i].idx = idx]
    /\ UNCHANGED WorkerUnchanged

\* where the loop goes after line 248: the exit test of line 249, then line 235
AfterBatch(idx, stopIdx) ==
    IF stopIdx # kDefaultStopSignal /\ idx >= stopIdx THEN "done"
    ELSE IF stopIdx = kDefaultStopSignal THEN "poll" ELSE "wait"

\* lines 248-249 (cursor is dead until the next wait assigns it)
WorkerSetSequence(i) ==
    /\ receivers[i].pc = "proc"
    /\ ~(receivers[i].idx < receivers[i].cur)
    /\ receivers' = [receivers EXCEPT ![i].sequence = receivers[i].idx,
                                      ![i].cur = kInitialCursorValue,
                                      ![i].pc = AfterBatch(receivers[i].idx,
                                                           receivers[i].stopIdx)]
    /\ UNCHANGED <<WorkerUnchanged, processed>>

Worker(i) ==
    \/ WorkerInit(i)
    \/ WorkerPoll(i)
    \/ WorkerPause(i)
    \/ WorkerWait(i)
    \/ WorkerProcess(i)
    \/ WorkerSetSequence(i)

Next ==
    \/ \E h \in Handlers \cup {NULL} : AddHandler(h)
    \/ \E h \in Handlers \cup {NULL} : RemoveHandler(h)
    \/ Start
    \/ \E s \in StopSignals : Signal(s)
    \/ \E b \in BOOLEAN : PauseAll(b)
    \/ DistributeCall
    \/ DistributeClaim
    \/ DistributeCopy
    \/ DistributePublish
    \/ JoinCall
    \/ JoinReturn
    \/ \E i \in DOMAIN receivers : WorkerInit(i)
    \/ \E i \in DOMAIN receivers : WorkerPoll(i)
    \/ \E i \in DOMAIN receivers : WorkerPause(i)
    \/ \E i \in DOMAIN receivers : WorkerWait(i)
    \/ \E i \in DOMAIN receivers : WorkerProcess(i)
    \/ \E i \in DOMAIN receivers : WorkerSetSequence(i)

Spec == Init /\ [][Next]_vars

\* the scheduler runs every thread that can take a step: each worker, and the
\* application thread inside a call it has begun (the application is free never
\* to make another call)
WorkerStep(i) == i \in DOMAIN receivers /\ Worker(i)

FairSpec ==
    /\ Spec
    /\ \A i \in 1..MaxReceivers : WF_vars(WorkerStep(i))
    /\ WF_vars(DistributeClaim)
    /\ WF_vars(DistributeCopy)
    /\ WF_vars(DistributePublish)
    /\ WF_vars(JoinReturn)

(***************************************************************************)
(* SingleDistributor, SequentialDistributor and CompositeDistributor: how  *)
(* handlers are registered and removed.  The handlers given to them here   *)
(* are leaves (their join is the empty default of Handler) or the          *)
(* connectors that addAsyncHandlerParellel makes.                          *)
(***************************************************************************)
Leaves == {"h1", "h2"}

\* connectors one CompositeDistributor is given
MaxBranches == 1
\* frames the stack of the calling thread has room for
MaxStack == 3

\* the handler lists addAsyncHandlerParellel is called with
BranchChains == {<<>>, <<"h1">>, <<"h1", "h2">>}

\* the payloads handed to SequentialDistributor::distribute
Payloads == {1, 2}

\* the application thread is not inside CompositeDistributor::removeHandler nor
\* inside SequentialDistributor::distribute
TreeIdle == comp_call.pc = "idle" /\ seq_call.pc = "idle"

\* history of the registrations: a call of addHandler with a handler that is
\* not registered registers it after all the registered ones; a call with a
\* registered handler is a repeated one
RegAdd(rcv) ==
    IF rcv = NULL THEN [reg EXCEPT !.again = FALSE]
    ELSE IF rcv \in reg.set THEN [reg EXCEPT !.again = TRUE]
    ELSE [set |-> reg.set \cup {rcv},
          before |-> reg.before \cup {<<g, rcv>> : g \in reg.set},
          again |-> FALSE]

\* history of the registrations: removeHandler of a registered handler
RegRemove(rcv) ==
    [set |-> reg.set \ {rcv},
     before |-> {pr \in reg.before : pr[1] # rcv /\ pr[2] # rcv},
     again |-> FALSE]

\* SingleDistributor::addHandler
SingleAddHandler(h) ==
    /\ TreeIdle
    /\ handler_' = h
    /\ UNCHANGED <<seq_chain, comp_chain, derived, branches, comp_call, seq_call, reg>>
    /\ UNCHANGED <<pdVars, app, hist, pipeVars, lifeVars>>

\* SingleDistributor::removeHandler: the value it returns (rcv is never read)
SingleRemoveResult(rcv) == handler_

\* SingleDistributor::removeHandler: the handler_ it leaves
SingleRemoveState(rcv) == NULL

SingleRemoveHandler(rcv) ==
    /\ TreeIdle
    /\ handler_' = SingleRemoveState(rcv)
    /\ UNCHANGED <<seq_chain, comp_chain, derived, branches, comp_call, seq_call, reg>>
    /\ UNCHANGED <<pdVars, app, hist, pipeVars, lifeVars>>

\* addHandler without the std::find of line 107
SequentialAddChainNoFind(c, rcv) ==
    IF rcv = NULL THEN c ELSE Append(c, rcv)

\* SequentialDistributor::addHandler: the value it returns
SequentialAddResult(rcv) == rcv

\* SequentialDistributor::addHandler: the chain it leaves
SequentialAddChain(c, rcv) ==
    IF rcv = NULL THEN c
    ELSE IF Contains(c, rcv) THEN c ELSE Append(c, rcv)

SequentialAddHandler(rcv) ==
    /\ TreeIdle
    /\ seq_chain' = SequentialAddChain(seq_chain, rcv)
    /\ reg' = RegAdd(rcv)
    /\ UNCHANGED <<handler_, comp_chain, derived, branches, comp_call, seq_call>>
    /\ UNCHANGED <<pdVars, app, hist, pipeVars, lifeVars>>

\* SequentialDistributor::removeHandler: the chain it leaves
SequentialRemoveChain(c, rcv) ==
    IF Contains(c, rcv) THEN Erase(c, IndexOf(c, rcv)) ELSE c

\* SequentialDistributor::removeHandler: the value it returns
SequentialRemoveResult(c, rcv) == IF Contains(c, rcv) THEN rcv ELSE NULL

\* the join of the removed handler is the empty one of a leaf
SequentialRemoveHandler(rcv) ==
    /\ TreeIdle
    /\ seq_chain' = SequentialRemoveChain(seq_chain, rcv)
    /\ reg' = RegRemove(rcv)
    /\ UNCHANGED <<handler_, comp_chain, derived, branches, comp_call, seq_call>>
    /\ UNCHANGED <<pdVars, app, hist, pipeVars, lifeVars>>

\* SequentialDistributor::distribute is entered with payload pMD
SequentialDistributeCall(pMD) ==
    /\ TreeIdle
    /\ seq_call' = [pc |-> "loop", pos |-> 1, pMD |-> pMD, log |-> <<>>]
    /\ UNCHANGED <<handler_, seq_chain, comp_chain, derived, branches, comp_call, reg>>
    /\ UNCHANGED <<pdVars, app, hist, pipeVars, lifeVars>>

\* the loop visiting the chain back to front
SequentialDistributeNextReversed(c, call) ==
    IF call.pos > Len(c) THEN [call EXCEPT !.pc = "return"]
    ELSE [call EXCEPT !.pos = @ + 1,
                      !.log = IF c[Len(c) + 1 - call.pos] # NULL
                              THEN Append(@, <<c[Len(c) + 1 - call.pos], call.pMD>>)
                              ELSE @]

\* one round of the loop of lines 121-123: process(pMD) of the next chain
\* entry when it is not null, or the end of the loop
SequentialDistributeNext(c, call) ==
    IF call.pos > Len(c) THEN [call EXCEPT !.pc = "return"]
    ELSE [call EXCEPT !.pos = @ + 1,
                      !.log = IF c[call.pos] # NULL
                              THEN Append(@, <<c[call.pos], call.pMD>>)
                              ELSE @]

SequentialDistributeStep ==
    /\ seq_call.pc = "loop"
    /\ seq_call' = SequentialDistributeNext(seq_chain, seq_call)
    /\ UNCHANGED <<handler_, seq_chain, comp_chain, derived, branches, comp_call, reg>>
    /\ UNCHANGED <<pdVars, app, hist, pipeVars, lifeVars>>

\* distribute returns to the caller
SequentialDistributeReturn ==
    /\ seq_call.pc = "return"
    /\ seq_call' = [pc |-> "idle", pos |-> 0, pMD |-> 0, log |-> <<>>]
    /\ UNCHANGED <<handler_, seq_chain, comp_chain, derived, branches, comp_call, reg>>
    /\ UNCHANGED <<pdVars, app, hist, pipeVars, lifeVars>>

\* CompositeDistributor inherits addHandler from SequentialDistributor
CompositeAddHandler(rcv) ==
    /\ TreeIdle
    /\ comp_chain' = SequentialAddChain(comp_chain, rcv)
    /\ UNCHANGED <<handler_, seq_chain, derived, branches, comp_call, seq_call, reg>>
    /\ UNCHANGED <<pdVars, app, hist, pipeVars, lifeVars>>

\* the k-th connector made by make_connector
Connector(k) == "c" \o ToString(k)

\* the chain of the new ParallelDistributor after pd->addHandler of each rcv
BranchChain(rcvs) == rcvs

\* addAsyncHandlerParellel: a new ParallelDistributor holding rcvs, wrapped in
\* a new connector that is added to the chain and recorded in derived
AddAsyncHandlerParellel(rcvs) ==
    /\ TreeIdle
    /\ Len(branches) < MaxBranches
    /\ branches' = Append(branches, BranchChain(rcvs))
    /\ comp_chain' = SequentialAddChain(comp_chain, Connector(Len(branches) + 1))
    /\ derived' = Append(derived, Connector(Len(branches) + 1))
    /\ UNCHANGED <<handler_, seq_chain, comp_call, seq_call, reg>>
    /\ UNCHANGED <<pdVars, app, hist, pipeVars, lifeVars>>

\* CompositeDistributor::removeHandler is entered
CompositeRemoveCall(handler) ==
    /\ TreeIdle
    /\ comp_call' = [pc |-> "removeHandler", depth |-> 1, arg |-> handler]
    /\ UNCHANGED <<handler_, seq_chain, comp_chain, derived, branches, seq_call, reg>>
    /\ UNCHANGED <<pdVars, app, hist, pipeVars, lifeVars>>

\* its first statement, this->removeHandler(handler), is a virtual call on a
\* CompositeDistributor: it enters the same function again, one frame deeper
CompositeRemoveRecurse ==
    /\ comp_call.pc = "removeHandler"
    /\ comp_call.depth < MaxStack
    /\ comp_call' = [comp_call EXCEPT !.depth = @ + 1]
    /\ UNCHANGED <<handler_, seq_chain, comp_chain, derived, branches, seq_call, reg>>
    /\ UNCHANGED <<pdVars, app, hist, pipeVars, lifeVars>>

\* no frame is left for the next call: the process ends, nothing returns
CompositeRemoveOverflow ==
    /\ comp_call.pc = "removeHandler"
    /\ comp_call.depth = MaxStack
    /\ comp_call' = [comp_call EXCEPT !.pc = "overflow"]
    /\ UNCHANGED <<handler_, seq_chain, comp_chain, derived, branches, seq_call, reg>>
    /\ UNCHANGED <<pdVars, app, hist, pipeVars, lifeVars>>

TreeNext ==
    \/ \E h \in Leaves \cup {NULL} : SingleAddHandler(h)
    \/ \E h \in Leaves \cup {NULL} : SingleRemoveHandler(h)
    \/ \E h \in Leaves \cup {NULL} : SequentialAddHandler(h)
    \/ \E h \in Leaves \cup {NULL} : SequentialRemoveHandler(h)
    \/ \E pMD \in Payloads : SequentialDistributeCall(pMD)
    \/ SequentialDistributeStep
    \/ SequentialDistributeReturn
    \/ \E h \in Handlers \cup {NULL} : TreeIdle /\ AddHandler(h)
    \/ \E h \in Handlers \cup {NULL} : TreeIdle /\ RemoveHandler(h)
    \/ \E h \in Leaves \cup {NULL} : CompositeAddHandler(h)
    \/ \E rcvs \in BranchChains : AddAsyncHandlerParellel(rcvs)
    \/ \E h \in Leaves \cup {NULL} \cup Range(derived) : CompositeRemoveCall(h)
    \/ CompositeRemoveRecurse
    \/ CompositeRemoveOverflow

SpecTree == Init /\ [][TreeNext]_vars

\* a thread inside a call goes on running
FairSpecTree ==
    /\ SpecTree
    /\ WF_vars(SequentialDistributeStep)
    /\ WF_vars(SequentialDistributeReturn)
    /\ WF_vars(CompositeRemoveRecurse)
    /\ WF_vars(CompositeRemoveOverflow)

(***************************************************************************)
(* The pipeline of the demo: the writer thread claims, writes and          *)
(* publishes on the Sequencer `producer`; each reader thread runs the loop *)
(* of readerV2 on its own Sequence, which gates the producer.  The Barrier *)
(* (with its dependents and its timeout) is from the design document.      *)
(***************************************************************************)
\* number of indices the writer publishes
MaxPub == 3

\* the smaller of two indices
Min2(a, b) == IF a <= b THEN a ELSE b

\* main: the reader threads are launched; the dependents of each reader's
\* Barrier and the target it waits for (its index, as readerV2 and doWork do,
\* or the index after it, as the consumer loop pattern of the design document)
\* are fixed here.  A reader depends only on readers started before it.
ReadersStart(depB, aheadA, aheadB) ==
    /\ \A c \in Readers : consumers[c].pc = "none"
    /\ consumers' = [c \in Readers |->
                        [consumers[c] EXCEPT !.pc = "wait",
                                             !.idx = consumers[c].sequence,
                                             !.dep = IF c = "B" THEN depB ELSE {},
                                             !.ahead = IF c = "B" THEN aheadB ELSE aheadA]]
    /\ UNCHANGED <<producer, pdVars, app, hist, treeVars, lifeVars>>

\* writer, Claim: the single-producer claim waits until the slowest gating
\* Sequence leaves room (the cached minimum never exceeds the real one, so
\* the claim goes through exactly when the real minimum leaves room)
WriterClaim ==
    /\ \A c \in Readers : consumers[c].pc # "none"
    /\ producer.next = producer.cursor
    /\ producer.next + 1 < MaxPub
    /\ \A c \in Readers : (producer.next + 1) - consumers[c].sequence <= N - 1
    /\ producer' = [producer EXCEPT !.next = @ + 1]
    /\ UNCHANGED <<consumers, pdVars, app, hist, treeVars, lifeVars>>

\* writer, the slot is written and Publish releases the cursor
WriterPublish ==
    /\ producer.next > producer.cursor
    /\ producer' = [producer EXCEPT !.cursor = producer.next]
    /\ UNCHANGED <<consumers, pdVars, app, hist, treeVars, lifeVars>>

\* a Barrier that looks at the cursor only
VisibleCursorOnly(c) == producer.cursor

\* what the Barrier of reader c can observe: the minimum of the cursor and of
\* the Sequences of its dependents
Visible(c) ==
    IF consumers[c].dep = {} THEN producer.cursor
    ELSE Min2(producer.cursor, SetMin({consumers[d].sequence : d \in consumers[c].dep}))

\* a timed wait that reports its target when the timeout expires
BarrierWaitForOptimistic(c, n, timed) ==
    IF Visible(c) >= n THEN [ok |-> TRUE, value |-> Visible(c), timedOut |-> FALSE]
    ELSE [ok |-> timed, value |-> n, timedOut |-> timed]

\* Barrier.WaitFor(n) and WaitFor(n, timeout): without timeout it returns only
\* once a value >= n is observable; with a timeout that expires it returns the
\* last observed value.  ok tells whether the call returns in this state.
BarrierWaitFor(c, n, timed) ==
    IF Visible(c) >= n THEN [ok |-> TRUE, value |-> Visible(c), timedOut |-> FALSE]
    ELSE [ok |-> timed, value |-> Visible(c), timedOut |-> timed]

\* the target reader c waits for
ReaderTarget(c) == consumers[c].idx + consumers[c].ahead

\* readerV2: cursor = prodBarrier->WaitFor(...)
ReaderWait(c, timed) ==
    /\ consumers[c].pc = "wait"
    /\ LET r == BarrierWaitFor(c, ReaderTarget(c), timed) IN
       /\ r.ok
       /\ consumers' = [consumers EXCEPT ![c].cursor = r.value,
                                         ![c].timedOut = r.timedOut,
                                         ![c].pc = "proc"]
    /\ UNCHANGED <<producer, pdVars, app, hist, treeVars, lifeVars>>

\* readerV2: one round of while (idx < cursor)
ReaderProcess(c) ==
    /\ consumers[c].pc = "proc"
    /\ consumers[c].idx < consumers[c].cursor
    /\ consumers' = [consumers EXCEPT ![c].idx = @ + 1]
    /\ UNCHANGED <<producer, pdVars, app, hist, treeVars, lifeVars>>

\* readerV2: consumer->set_sequence(idx) after the batch
ReaderSetSequence(c) ==
    /\ consumers[c].pc = "proc"
    /\ ~(consumers[c].idx < consumers[c].cursor)
    /\ consumers' = [consumers EXCEPT ![c].sequence = consumers[c].idx,
                                      ![c].timedOut = FALSE,
                                      ![c].pc = "wait"]
    /\ UNCHANGED <<producer, pdVars, app, hist, treeVars, lifeVars>>

PipeNext ==
    \/ \E depB \in SUBSET {"A"}, aheadA, aheadB \in {0, 1} : ReadersStart(depB, aheadA, aheadB)
    \/ WriterClaim
    \/ WriterPublish
    \/ \E c \in Readers, timed \in BOOLEAN : ReaderWait(c, timed)
    \/ \E c \in Readers : ReaderProcess(c)
    \/ \E c \in Readers : ReaderSetSequence(c)

SpecPipe == Init /\ [][PipeNext]_vars

(***************************************************************************)
(* Trees of handlers and distributors, and their lifecycle.  A node is a   *)
(* leaf Handler, a Connector around a distributor, or a distributor with   *)
(* its chain in kids.  The root is a CompositeDistributor; the             *)
(* ParallelDistributors are told apart by name.  Of a ParallelDistributor  *)
(* only started_ and the hand-over of a payload to the worker of each      *)
(* chain entry are kept here.                                              *)
(***************************************************************************)
\* entries the chain of the root is given
MaxKids == 2

LeafNode(h) == [kind |-> "leaf", name |-> h, kids |-> <<>>]

\* make_connector(dist)
ConnectorNode(d) == [kind |-> "connector", name |-> "conn", kids |-> <<d>>]

\* a ParallelDistributor after addHandler of each of rcvs
ParallelNode(nm, rcvs) == [kind |-> "parallel", name |-> nm, kids |-> rcvs]

\* a SequentialDistributor after addHandler of each of rcvs
SequentialNode(rcvs) == [kind |-> "sequential", name |-> "sd", kids |-> rcvs]

\* a ParallelDistributor the application built itself, holding leaf h2, wrapped
\* in a Connector to be registered as a handler
InnerBranch == ConnectorNode(ParallelNode("inner", <<LeafNode("h2")>>))

\* the handler lists the helpers of the root are called with
RcvLists == {<<LeafNode("h1")>>, <<LeafNode("h1"), InnerBranch>>, <<InnerBranch>>}

\* the handler returned by addAsyncHandlerParellel(rcvs)
AsyncParallelBranch(nm, rcvs) == ConnectorNode(ParallelNode(nm, rcvs))

\* the handler returned by addAsyncHandlerSequential(rcvs)
AsyncSequentialBranch(nm, rcvs) ==
    ConnectorNode(ParallelNode(nm, <<ConnectorNode(SequentialNode(rcvs))>>))

\* the name of the ParallelDistributor the next helper call creates
NextBranchName == "pd" \o ToString(Len(root.kids) + 1)

\* the tree is built before the lifecycle calls
Building == ~life.startCalled /\ Len(root.kids) < MaxKids

\* addHandler of the root (inherited from SequentialDistributor), rcv not null
RootAddHandler(rcv) ==
    /\ Building
    /\ root' = [root EXCEPT !.kids = IF Contains(@, rcv) THEN @ ELSE Append(@, rcv)]
    /\ UNCHANGED <<life, inflight, pdVars, app, hist, treeVars, pipeVars>>

RootAddAsyncHandlerParellel(rcvs) ==
    /\ Building
    /\ root' = [root EXCEPT !.kids = Append(@, AsyncParallelBranch(NextBranchName, rcvs))]
    /\ UNCHANGED <<life, inflight, pdVars, app, hist, treeVars, pipeVars>>

RootAddAsyncHandlerSequential(rcvs) ==
    /\ Building
    /\ root' = [root EXCEPT !.kids = Append(@, AsyncSequentialBranch(NextBranchName, rcvs))]
    /\ UNCHANGED <<life, inflight, pdVars, app, hist, treeVars, pipeVars>>

\* the ParallelDistributors whose start (signal, join) is called when start
\* (signal, join) of node n is called: a Connector passes the call to its
\* distributor, a Sequential or Composite distributor to every handler of its
\* chain, a ParallelDistributor acts on its own wrappers only, a leaf does
\* nothing
RECURSIVE LifecycleReach(_)
LifecycleReach(n) ==
    IF n.kind = "parallel" THEN {n.name}
    ELSE IF n.kind = "leaf" THEN {}
    ELSE UNION {LifecycleReach(n.kids[k]) : k \in DOMAIN n.kids}

\* the ParallelDistributor nodes below (and including) n
RECURSIVE ParallelNodes(_)
ParallelNodes(n) ==
    (IF n.kind = "parallel" THEN {n} ELSE {})
        \cup UNION {ParallelNodes(n.kids[k]) : k \in DOMAIN n.kids}

ParallelNames(n) == {x.name : x \in ParallelNodes(n)}

\* the leaf handlers below n
RECURSIVE LeafNames(_)
LeafNames(n) ==
    IF n.kind = "leaf" THEN {n.name}
    ELSE UNION {LeafNames(n.kids[k]) : k \in DOMAIN n.kids}

\* what the calling thread does when process (distribute) of node n is called
\* with a payload: a leaf consumes it, a Connector and a Sequential or
\* Composite distributor pass it on in the same thread, a ParallelDistributor
\* publishes it in its ring when started and discards it when not
RECURSIVE Process(_, _)
Process(n, started) ==
    IF n.kind = "leaf" THEN {<<"process", n.name>>}
    ELSE IF n.kind = "parallel"
         THEN IF n.name \in started THEN {<<"publish", n.name>>}
              ELSE {<<"discard", n.name>>}
    ELSE UNION {Process(n.kids[k], started) : k \in DOMAIN n.kids}

\* the life record after the events ev of a thread
AfterEvents(ev) ==
    [life EXCEPT !.delivered = @ \cup {e[2] : e \in {x \in ev : x[1] = "process"}},
                 !.dropped = @ \cup {e[2] : e \in {x \in ev : x[1] = "discard"}}]

\* a published payload waits for the worker of every chain entry of the ring
Handover(ev) ==
    UNION {{<<nd.name, k>> : k \in DOMAIN nd.kids} :
              nd \in {x \in ParallelNodes(root) : <<"publish", x.name>> \in ev}}

\* start() of the root
RootStart ==
    /\ ~life.startCalled
    /\ root.kids # <<>>
    /\ life' = [life EXCEPT !.startCalled = TRUE,
                            !.started = @ \cup LifecycleReach(root)]
    /\ UNCHANGED <<root, inflight, pdVars, app, hist, treeVars, pipeVars>>

\* distribute(p) of the root, after start
RootDistribute ==
    /\ life.startCalled /\ ~life.signalCalled /\ ~life.sent
    /\ LET ev == Process(root, life.started) IN
       /\ life' = [AfterEvents(ev) EXCEPT !.sent = TRUE]
       /\ inflight' = inflight \cup Handover(ev)
    /\ UNCHANGED <<root, pdVars, app, hist, treeVars, pipeVars>>

\* the worker of chain entry k of ParallelDistributor nm calls process of its
\* handler on the payload
TreeWorkerProcess(nm, k) ==
    /\ <<nm, k>> \in inflight
    /\ LET nd == CHOOSE x \in ParallelNodes(root) : x.name = nm
           ev == Process(nd.kids[k], life.started)
       IN /\ life' = AfterEvents(ev)
          /\ inflight' = (inflight \ {<<nm, k>>}) \cup Handover(ev)
    /\ UNCHANGED <<root, pdVars, app, hist, treeVars, pipeVars>>

\* signal() of the root
RootSignal ==
    /\ life.startCalled /\ ~life.signalCalled
    /\ life' = [life EXCEPT !.signalCalled = TRUE,
                            !.signalled = @ \cup LifecycleReach(root)]
    /\ UNCHANGED <<root, inflight, pdVars, app, hist, treeVars, pipeVars>>

\* join() of the root, which returns once the workers it waits for have drained
RootJoin ==
    /\ life.signalCalled /\ ~life.joinCalled
    /\ inflight = {}
    /\ life' = [life EXCEPT !.joinCalled = TRUE,
                            !.joined = @ \cup LifecycleReach(root),
                            !.started = @ \ LifecycleReach(root)]
    /\ UNCHANGED <<root, inflight, pdVars, app, hist, treeVars, pipeVars>>

LifeNext ==
    \/ \E rcv \in {LeafNode("h3"), InnerBranch} : RootAddHandler(rcv)
    \/ \E rcvs \in RcvLists : RootAddAsyncHandlerParellel(rcvs)
    \/ \E rcvs \in RcvLists : RootAddAsyncHandlerSequential(rcvs)
    \/ RootStart
    \/ RootDistribute
    \/ \E w \in inflight : TreeWorkerProcess(w[1], w[2])
    \/ RootSignal
    \/ RootJoin

SpecLife == Init /\ [][LifeNext]_vars

(***************************************************************************)
(* Definitions used to state the properties.                               *)
(***************************************************************************)
Live(i) == receivers[i].work_thread

LiveWorkers == {i \in DOMAIN receivers : Live(i)}

\* what receiver i passed to process since its thread was launched
CycleLog(i) == SubSeq(processed[i], cycleStart[i] + 1, Len(processed[i]))

IsOfCycle(r) == r.started /\ r.epoch = epoch

\* the distribute calls of the current cycle that published, in order
CycleSent == SelectSeq(sent, IsOfCycle)

\* number of entries of a log that carry payload v
CountVal(log, v) == Cardinality({k \in DOMAIN log : log[k][2] = v})

RECURSIVE SumCount(_, _, _)
SumCount(n, h, v) ==
    IF n = 0 THEN 0
    ELSE SumCount(n - 1, h, v)
         + (IF receivers[n].handler = h THEN CountVal(processed[n], v) ELSE 0)

\* number of times handler h was passed payload v
HandlerCount(h, v) == SumCount(Len(receivers), h, v)

\* every worker ended on the drain target that covers all that was distributed
DrainTargetLatched == \A i \in LiveWorkers : receivers[i].stopIdx = last_claimed_idx

(***************************************************************************)
(* C1  Drain semantics: once signal(kDefaultStopSignal) and join have made *)
(* every worker end on the drain target, every payload distributed in the  *)
(* cycle has been passed to process exactly once by each registered        *)
(* handler.  (Stated for the cycles whose workers all acted on the drain   *)
(* target of the last claimed index; the state is the one in which join    *)
(* returns.)                                                               *)
(***************************************************************************)
C1_DrainExactlyOnce ==
    (app.pc = "join" /\ AllExited /\ DrainTargetLatched) =>
        \A k \in DOMAIN sent : IsOfCycle(sent[k]) =>
            \A h \in Range(chain) : HandlerCount(h, sent[k].val) = 1

(***************************************************************************)
(* C2  No loss, no duplication, in order: within a start..join cycle what  *)
(* each worker passes to process is a prefix of what was distributed in    *)
(* the cycle, at consecutive ring indices, each with the payload that was  *)
(* copied in for its index.                                                *)
(***************************************************************************)
C2_PrefixInOrder ==
    \A i \in LiveWorkers :
        /\ Len(CycleLog(i)) <= Len(CycleSent)
        /\ \A k \in DOMAIN CycleLog(i) :
              CycleLog(i)[k] = <<CycleSent[k].idx, CycleSent[k].val>>

(***************************************************************************)
(* C3  Capacity: while started, the cursor is never more than N - 1 ahead  *)
(* of the consumer Sequence of a worker registered as gating sequence.     *)
(***************************************************************************)
C3_Capacity ==
    started_ =>
        \A k \in DOMAIN gating_sequences :
            cursor - receivers[gating_sequences[k]].sequence <= N - 1

(***************************************************************************)
(* C4  Stop-immediately: a worker whose stop sequence holds                *)
(* kStopImmediatelySignal leaves its loop at its next loop iteration: when *)
(* it ends an iteration it goes on to read the signal, and having read it  *)
(* it exits; it does not start another wait.                               *)
(***************************************************************************)
C4_StopImmediately ==
    [][\A i \in DOMAIN receivers :
          (/\ receivers[i].stopSequence = kStopImmediatelySignal
           /\ receivers'[i].stopSequence = kStopImmediatelySignal)
          => /\ (receivers[i].pc = "proc" /\ receivers'[i].pc # "proc")
                    => receivers'[i].pc \in {"poll", "done"}
             /\ (receivers[i].pc = "poll" /\ receivers'[i].pc # "poll")
                    => receivers'[i].pc = "done"]_vars

(***************************************************************************)
(* C5  Pause safety: a payload distributed while the workers are paused is *)
(* not overwritten in the ring before every running worker of a registered *)
(* handler that was not told to stop has processed it, and a worker that   *)
(* processes its index is passed that payload.  (Stated for the first      *)
(* payload distributed while paused in the cycle.)                         *)
(***************************************************************************)
C5_PauseKeepsPayload ==
    pausedVal # 0 =>
        \A k \in DOMAIN sent : sent[k].val = pausedVal =>
            \A i \in LiveWorkers : Contains(chain, receivers[i].handler) =>
                /\ (receivers[i].stopSequence = kDefaultStopSignal
                    /\ receivers[i].idx < sent[k].idx)
                       => buffer[Slot(sent[k].idx)] = pausedVal
                /\ \A j \in DOMAIN CycleLog(i) :
                      CycleLog(i)[j][1] = sent[k].idx => CycleLog(i)[j][2] = pausedVal

(***************************************************************************)
(* C6  Cooperative termination: under fair scheduling, a join that follows *)
(* signal(kDefaultStopSignal) (every worker's stop sequence holds the last *)
(* claimed index) returns.                                                 *)
(***************************************************************************)
DrainSignalled ==
    \A i \in LiveWorkers : receivers[i].stopSequence = last_claimed_idx

C6_DrainJoinTerminates ==
    (app.pc = "join" /\ DrainSignalled) ~> (app.pc = "idle")

(***************************************************************************)
(* C7  Rejection after start: while started, addHandler and removeHandler  *)
(* return null for every handler, and no call changes the chain, the       *)
(* workers or the gating sequences.                                        *)
(***************************************************************************)
C7_Rejected ==
    started_ =>
        \A h \in Handlers \cup {NULL} :
            /\ ParallelAddResult(h) = NULL
            /\ ParallelRemoveResult(h) = NULL

C7_Frame ==
    (started_ /\ started_') =>
        /\ chain' = chain
        /\ gating_sequences' = gating_sequences
        /\ Len(receivers') = Len(receivers)
        /\ \A i \in DOMAIN receivers :
              /\ receivers'[i].handler = receivers[i].handler
              /\ receivers'[i].work_thread = receivers[i].work_thread

C7_RejectAfterStart == []C7_Rejected /\ [][C7_Frame]_vars

C7_Witness ==
    /\ started_
    /\ chain = <<"h1">>
    /\ \E i \in LiveWorkers : Len(CycleLog(i)) > 0

\* removeHandler of ParallelDistributor with a handler that is not in its chain
ParallelRemoveAbsent ==
    \A h \in Handlers \cup {NULL} :
        ~Contains(chain, h) =>
            ParallelRemoveResult(h) = NULL /\ ParallelRemoveChain(h) = chain

\* removeHandler of SequentialDistributor with a handler that is not in its chain
SequentialRemoveAbsent ==
    \A h \in Leaves \cup {NULL} :
        ~Contains(seq_chain, h) =>
            /\ SequentialRemoveResult(seq_chain, h) = NULL
            /\ SequentialRemoveChain(seq_chain, h) = seq_chain

\* removeHandler of SingleDistributor with a handler other than the one it holds
SingleRemoveAbsent ==
    \A h \in Leaves \cup {NULL} :
        (h = NULL \/ h # handler_) =>
            SingleRemoveResult(h) = NULL /\ SingleRemoveState(h) = handler_

\* removeHandler of CompositeDistributor with a handler that is not in its
\* chain does not end the process
CompositeRemoveAbsent ==
    (comp_call.pc = "overflow") => Contains(comp_chain, comp_call.arg)

(***************************************************************************)
(* C8  For every distributor variant (Single, Sequential, Parallel,        *)
(* Composite), removeHandler of a handler that is not registered returns   *)
(* null and leaves the registered set unchanged.                           *)
(***************************************************************************)
C8_RemoveAbsentIsNull ==
    /\ SingleRemoveAbsent
    /\ SequentialRemoveAbsent
    /\ ParallelRemoveAbsent
    /\ CompositeRemoveAbsent

(***************************************************************************)
(* C9  A call of removeHandler on a CompositeDistributor always            *)
(* terminates: once entered, it returns to the caller.                     *)
(***************************************************************************)
C9_CompositeRemoveReturns ==
    (comp_call.pc = "removeHandler") ~> (comp_call.pc = "idle")

(***************************************************************************)
(* C10  distribute: while not started no step claims an index, writes a    *)
(* slot or moves the cursor or last_claimed_idx, and a dropped payload is  *)
(* never passed to process, also not after a later start; when started,    *)
(* each distribute claims exactly the index after the cursor, copies the   *)
(* payload into its slot and then publishes that index.                    *)
(***************************************************************************)
C10_DropFrame ==
    (~started_ /\ ~started_') =>
        UNCHANGED <<next_claim, last_claimed_idx, cursor, buffer, processed>>

C10_DropNeverProcessed ==
    \A k \in DOMAIN sent : ~sent[k].started =>
        \A i \in DOMAIN processed : CountVal(processed[i], sent[k].val) = 0

C10_OneIndex ==
    /\ app.pc \in {"idle", "claim", "join"} =>
          (last_claimed_idx = cursor /\ next_claim = cursor)
    /\ app.pc \in {"copy", "publish"} =>
          (last_claimed_idx = cursor + 1 /\ next_claim = cursor + 1 /\ started_)
    /\ app.pc = "publish" => buffer[Slot(last_claimed_idx)] = app.payload
    /\ \A k \in DOMAIN sent : sent[k].started =>
          /\ sent[k].idx = Cardinality({j \in 1..(k - 1) : sent[j].started})
          /\ sent[k].idx <= cursor

C10_PublishStep ==
    (app.pc = "publish" /\ app'.pc = "idle") =>
        /\ cursor' = cursor + 1
        /\ buffer'[Slot(cursor')] = app.payload

C10_Distribute ==
    /\ [](C10_DropNeverProcessed /\ C10_OneIndex)
    /\ [][C10_DropFrame /\ C10_PublishStep]_vars

C10_Witness ==
    \E j, k \in DOMAIN sent :
        /\ j < k
        /\ ~sent[j].started
        /\ sent[k].started
        /\ \E i \in DOMAIN processed : CountVal(processed[i], sent[k].val) = 1

\* number of entries of a sequence equal to x
Occurrences(s, x) == Cardinality({k \in DOMAIN s : s[k] = x})

\* number of process calls a distribute made on handler h
LogCalls(log, h) == Cardinality({k \in DOMAIN log : log[k][1] = h})

(***************************************************************************)
(* C11  addHandler is idempotent: on a SequentialDistributor and on a      *)
(* ParallelDistributor that is not started, addHandler(h) with a non-null  *)
(* h that is already in the chain returns h and leaves the chain as the    *)
(* first call left it, with h in it once; a distribute of the              *)
(* SequentialDistributor then calls process of each handler once.          *)
(***************************************************************************)
C11_AddIdempotent ==
    /\ \A h \in Leaves :
          LET c1 == SequentialAddChain(seq_chain, h) IN
              /\ SequentialAddResult(h) = h
              /\ SequentialAddChain(c1, h) = c1
              /\ Occurrences(c1, h) = 1
    /\ ~started_ =>
          \A h \in Handlers :
              /\ Occurrences(ParallelAddChain(h), h) = 1
              /\ Contains(chain, h) =>
                    ParallelAddChain(h) = chain /\ ParallelAddResult(h) = h
    /\ seq_call.pc = "return" =>
          \A h \in Range(seq_chain) : LogCalls(seq_call.log, h) = 1

\* addHandler was just repeated on the SequentialDistributor, the
\* ParallelDistributor holds h1, and a distribute over two handlers is returning
C11_Witness ==
    /\ reg.again
    /\ Contains(chain, "h1")
    /\ ~started_
    /\ seq_call.pc = "return"
    /\ Len(seq_call.log) = 2

(***************************************************************************)
(* C12  Sequential fan-out order: when distribute(p) of a                  *)
(* SequentialDistributor returns it has called process(p) once on every    *)
(* registered handler and on no other, the handlers in the order in which  *)
(* they were registered (a repeated addHandler of a registered handler     *)
(* does not count, the first one does).                                    *)
(***************************************************************************)
C12_FanOutOrder ==
    LET log == seq_call.log IN
        /\ \A k \in DOMAIN log : log[k][1] \in reg.set /\ log[k][2] = seq_call.pMD
        /\ \A j, k \in DOMAIN log : j < k => <<log[j][1], log[k][1]>> \in reg.before
        /\ seq_call.pc = "return" =>
              \A h \in Leaves : LogCalls(log, h) = (IF h \in reg.set THEN 1 ELSE 0)

\* a distribute returns after h2, then h1, were called: h1 was removed and
\* registered again after h2
C12_Witness ==
    /\ seq_call.pc = "return"
    /\ seq_call.log = <<<<"h2", 2>>, <<"h1", 2>>>>

\* the indices Claim returned, in the order of the calls (a distribute that was
\* dropped made no Claim)
ClaimedIndices == SelectSeq(sent, LAMBDA r : r.started)

(***************************************************************************)
(* C13  Monotonicity: every index returned by Claim is greater than every  *)
(* index returned before, over all start cycles of the distributor; the    *)
(* cursor never decreases and is never below -1.                           *)
(***************************************************************************)
C13_Monotonic ==
    /\ [](/\ cursor >= -1
          /\ \A j, k \in DOMAIN ClaimedIndices :
                j < k => ClaimedIndices[j].idx < ClaimedIndices[k].idx
          /\ (app.pc \in {"copy", "publish"}) =>
                \A k \in DOMAIN ClaimedIndices : ClaimedIndices[k].idx < last_claimed_idx)
    /\ [][cursor' >= cursor /\ next_claim' >= next_claim]_vars

\* two indices were claimed and published, one in each of two start cycles,
\* and a third one has just been claimed
C13_Witness ==
    /\ app.pc = "copy"
    /\ \E j, k \in DOMAIN ClaimedIndices :
          ClaimedIndices[j].epoch = 1 /\ ClaimedIndices[k].epoch = 2

(***************************************************************************)
(* C14  Dependency ordering: a reader B whose Barrier has reader A's       *)
(* Sequence among its dependents never gets ahead of A: B's Sequence, and  *)
(* the index B is processing, are at most A's Sequence in every state.     *)
(***************************************************************************)
C14_DependencyOrder ==
    \A b \in Readers : \A a \in consumers[b].dep :
        /\ consumers[b].sequence <= consumers[a].sequence
        /\ consumers[b].idx <= consumers[a].sequence
        /\ consumers[b].pc = "proc" => consumers[b].cursor <= consumers[a].sequence

\* B depends on A and has consumed index 1 behind it
C14_Witness ==
    /\ consumers["B"].dep = {"A"}
    /\ consumers["B"].sequence = 1
    /\ consumers["A"].sequence = 1

(***************************************************************************)
(* C15  Barrier.WaitFor(n) without timeout returns only a value >= n;      *)
(* WaitFor(n, timeout) whose timeout expires returns the last observed     *)
(* value, which is below n, and the caller's loop while (idx < returned)   *)
(* then processes nothing; no reader ever processes an index that is not   *)
(* published.                                                              *)
(***************************************************************************)
C15_WaitForReturn ==
    /\ [](\A c \in Readers :
             /\ (consumers[c].pc = "proc" /\ ~consumers[c].timedOut) =>
                   consumers[c].cursor >= consumers[c].sequence + consumers[c].ahead
             /\ (consumers[c].pc = "proc" /\ consumers[c].timedOut) =>
                   /\ consumers[c].cursor < consumers[c].sequence + consumers[c].ahead
                   /\ consumers[c].idx = consumers[c].sequence
             /\ consumers[c].idx <= producer.cursor)
    /\ [][\A c \in Readers :
             consumers[c].timedOut => consumers'[c].idx = consumers[c].idx]_vars

\* a timed wait of B for index 1 expired with index 0 published only
C15_Witness ==
    /\ consumers["B"].pc = "proc"
    /\ consumers["B"].timedOut
    /\ consumers["B"].sequence = 0
    /\ producer.cursor = 0

\* the indices receiver i passed to process since its thread was launched
CycleIndices(i) == {CycleLog(i)[k][1] : k \in DOMAIN CycleLog(i)}

(***************************************************************************)
(* C16  A worker advances its consumer Sequence only after consuming: once *)
(* the worker thread has initialised its Sequence, every index up to the   *)
(* value of the Sequence has been passed to process (which returned) since *)
(* the thread was launched; the Sequence changes only at the end of a      *)
(* batch, to the index of the batch's last process call.                   *)
(***************************************************************************)
C16_SequenceAfterProcess ==
    /\ [](\A i \in LiveWorkers :
             receivers[i].pc # "init" =>
                 /\ \A k \in 0..receivers[i].sequence : k \in CycleIndices(i)
                 /\ receivers[i].sequence <= receivers[i].idx)
    /\ [][\A i \in DOMAIN receivers :
             (i \in DOMAIN receivers' /\ receivers'[i].sequence # receivers[i].sequence) =>
                 \/ receivers[i].pc = "init"
                 \/ /\ receivers[i].pc = "proc"
                    /\ ~(receivers[i].idx < receivers[i].cur)
                    /\ receivers'[i].sequence = receivers[i].idx
                    /\ processed'[i] = processed[i]]_vars

\* a worker has published index 1 after a batch of two process calls
C16_Witness ==
    \E i \in LiveWorkers :
        /\ receivers[i].sequence = 1
        /\ Len(CycleLog(i)) = 2
        /\ receivers[i].pc # "init"

\* worker i is paused and no stop was signalled to it, before and after the step
PausedNoStop(i) ==
    /\ i \in DOMAIN receivers'
    /\ receivers[i].work_thread /\ receivers'[i].work_thread
    /\ receivers[i].pauseFlag /\ receivers'[i].pauseFlag
    /\ receivers[i].stopSequence = kDefaultStopSignal
    /\ receivers'[i].stopSequence = kDefaultStopSignal
    /\ receivers[i].stopIdx = kDefaultStopSignal

(***************************************************************************)
(* C17  Pause parks the worker: while the pause flag of a worker is set    *)
(* and no stop was signalled to it, a worker that is in its polling block  *)
(* stays there, calls process on no index and leaves its consumer Sequence *)
(* alone; a worker that was inside an iteration of its loop when the flag  *)
(* was set finishes that batch and goes to the polling block.              *)
(***************************************************************************)
C17_PauseParks ==
    [][\A i \in DOMAIN receivers :
          PausedNoStop(i) =>
              /\ receivers[i].pc \in {"poll", "pause"} =>
                    /\ receivers'[i].pc \in {"poll", "pause"}
                    /\ receivers'[i].sequence = receivers[i].sequence
                    /\ receivers'[i].idx = receivers[i].idx
                    /\ processed'[i] = processed[i]
              /\ receivers[i].pc = "wait" => receivers'[i].pc \in {"wait", "proc"}
              /\ receivers[i].pc = "proc" => receivers'[i].pc \in {"proc", "poll"}]_vars

\* a paused worker sits in its polling block while index 0 waits in the ring
C17_Witness ==
    \E i \in LiveWorkers :
        /\ receivers[i].pauseFlag
        /\ receivers[i].stopSequence = kDefaultStopSignal
        /\ receivers[i].pc = "poll"
        /\ receivers[i].stopIdx = kDefaultStopSignal
        /\ receivers[i].sequence < cursor
        /\ Len(CycleLog(i)) = 1

(***************************************************************************)
(* C18  Worker wait target: whenever a worker is about to issue the wait   *)
(* on its Barrier, the target of the wait is idx + 1, the index after the  *)
(* last one it processed, so that the wait returns a value above idx       *)
(* unless its timeout expired.                                             *)
(***************************************************************************)
C18_WaitTargetNext ==
    \A i \in LiveWorkers :
        receivers[i].pc = "wait" => WaitTarget(receivers[i].idx) = receivers[i].idx + 1

\* the live workers that run handler h
WorkersOf(h) == {i \in LiveWorkers : receivers[i].handler = h}

(***************************************************************************)
(* C19  One worker per handler across restarts: whenever the distributor   *)
(* is started, there are as many live worker threads as registered         *)
(* handlers, each registered handler is run by exactly one of them, and    *)
(* the gating sequences of the sequencer are exactly the consumer          *)
(* Sequences of the live workers.                                          *)
(***************************************************************************)
C19_OneWorkerPerHandler ==
    started_ =>
        /\ Cardinality(LiveWorkers) = Len(chain)
        /\ \A h \in Range(chain) : Cardinality(WorkersOf(h)) = 1
        /\ Range(gating_sequences) = LiveWorkers

\* number of process calls of handler h on ring index k, over all its workers
RECURSIVE IndexCalls(_, _, _)
IndexCalls(n, h, k) ==
    IF n = 0 THEN 0
    ELSE IndexCalls(n - 1, h, k)
         + (IF receivers[n].handler = h
            THEN Cardinality({j \in DOMAIN processed[n] : processed[n][j][1] = k})
            ELSE 0)

(***************************************************************************)
(* C20  No replay after restart: over all start cycles of one              *)
(* ParallelDistributor, process of a handler is called at most once for    *)
(* each ring index that was ever published.                                *)
(***************************************************************************)
C20_NoReplay ==
    \A h \in Handlers : \A k \in 0..cursor : IndexCalls(Len(receivers), h, k) <= 1

\* no live worker has its pause flag set
NoWorkerPaused == \A i \in LiveWorkers : ~receivers[i].pauseFlag

(***************************************************************************)
(* C22  distribute always returns: a call of distribute made while the     *)
(* distributor is started and no worker is paused returns to the caller,   *)
(* under fair scheduling, also when it is made after signal and before     *)
(* join.                                                                   *)
(***************************************************************************)
C22_DistributeReturns ==
    (app.pc = "claim" /\ started_ /\ NoWorkerPaused) ~> (app.pc = "idle")

(***************************************************************************)
(* C21  Lifecycle reaches the whole tree: once start was called at the     *)
(* root every ParallelDistributor of the tree is started (until join),     *)
(* signal and join at the root reach every one of them, no                 *)
(* ParallelDistributor discards a payload distributed at the root after    *)
(* start, and when the workers have passed the payload on, process of      *)
(* every leaf handler of the tree has been called with it.                 *)
(***************************************************************************)
C21_LifecycleReachesTree ==
    /\ (life.startCalled /\ ~life.joinCalled) => ParallelNames(root) \subseteq life.started
    /\ life.signalCalled => ParallelNames(root) \subseteq life.signalled
    /\ life.joinCalled => ParallelNames(root) \subseteq life.joined
    /\ life.dropped = {}
    /\ (life.sent /\ inflight = {}) => life.delivered = LeafNames(root)
====
